---- MODULE Spec2Model ----
(***************************************************************************)
(* A model of atomic_agents.agents.base_agent.BaseAgent (turn handling,    *)
(* memory reset, context-provider registry) and of the deep-research       *)
(* example's configuration loading (config.py, agents/client.py).          *)
(*                                                                         *)
(* AgentMemory and SystemPromptGenerator are imported by base_agent.py     *)
(* from atomic_agents.lib.components; their operations are modelled from   *)
(* the design description (sections 3, 4.1 and 4.2).                       *)
(***************************************************************************)
EXTENDS Integers, Sequences, FiniteSets, TLC

VARIABLES
    heap,                \* object store: reference -> AgentMemory value
    memory,              \* self.memory (a reference)
    initial_memory,      \* self.initial_memory (a reference)
    current_user_input,  \* self.current_user_input
    context_providers,   \* self.system_prompt_generator.context_providers
    pc,                  \* "Idle" | "AwaitingResponse"
    request,             \* completion requests in flight (message lists)
    result,              \* what the last finished call gave its caller
    env,                 \* process environment (os.getenv)
    chat_config,         \* class attributes of ChatConfig, once config.py is imported
    client,              \* module-level client of agents/client.py
    startup,             \* position of the example's start-up
    lastOp,              \* history: the last operation and how it ended
    constructed,         \* history: Memory value right after __init__
    callMem,             \* history: Memory value when the last call began
    callInput,           \* history: user_input of the last run call
    callCurrent,         \* history: current_user_input when the last call began
    submitted,           \* history: requests issued by the last run call
    prevFail,            \* history: the run(input) call that failed just before this call
    regLog,              \* history: the register and unregister calls, oldest first
    regBefore            \* history: the registry when the last registry call began

vars ==
    << heap, memory, initial_memory, current_user_input, context_providers, pc,
       request, result, env, chat_config, client, startup, lastOp, constructed,
       callMem, callInput, callCurrent, submitted, prevFail, regLog, regBefore >>

agentVars ==
    << heap, memory, initial_memory, current_user_input, pc, request, constructed,
       callMem, callInput, callCurrent, submitted, prevFail >>

regVars ==
    << context_providers, regLog, regBefore >>

configVars ==
    << env, chat_config, client, startup >>

----------------------------------------------------------------------------
(* Bounds and value sets *)

\* Longest message history a run call is started towards.
MaxHistory == 4

\* Longest log of register and unregister calls.
MaxLog == 4

\* Python's None.
None == "None"

\* BaseAgentInputSchema instances, by their chat_message.
Inputs == {"hello", "more"}

\* BaseAgentOutputSchema instances, by their chat_message.
Responses == {"r1", "r2"}

\* A payload of the completion endpoint that lacks the required chat_message.
Malformed == "missing chat_message"

\* What the completion endpoint may send back.
Payloads == Responses \cup {Malformed}

\* Failures of the completion endpoint itself (network, provider).
ProviderErrors == {"APIConnectionError"}

\* Object references.
Refs == 1..3

\* No object: a free slot of the heap, or config.memory left at None.
NoMem == [turn |-> -1, history |-> << >>]

\* No failed run(input) call directly precedes.
NoFail == [mem |-> NoMem, input |-> None]

\* Context-provider names and provider objects.
Names == {"date", "docs"}
Providers == {"p1", "p2"}

----------------------------------------------------------------------------
(* AgentMemory (design sections 3 and 4.1) *)

\* AgentMemory(): empty, turn counter 0.
AgentMemory == [turn |-> 0, history |-> << >>]

\* initialize_turn(): opens a new turn by incrementing the turn counter.
initialize_turn(m) == [m EXCEPT !.turn = @ + 1]

\* add_message(role, payload): appends a Message tagged with the current turn.
add_message(m, role, payload) ==
    [m EXCEPT !.history = Append(@, [role |-> role, turn_id |-> m.turn, content |-> payload])]

\* The content of a history entry: the payload dumped as its one field.
Dump(payload) == << "chat_message", payload >>

\* get_history(): the messages as role/content pairs; the turn index is dropped.
get_history(m) ==
    [i \in 1..Len(m.history) |->
        [role |-> m.history[i].role, content |-> Dump(m.history[i].content)]]

\* A reference no object lives at.
NewRef(h) == CHOOSE r \in Refs : h[r] = NoMem /\ \A q \in Refs : h[q] = NoMem => r <= q

\* copy(): an independent deep snapshot, a new object holding the same value.
copy(h, src) ==
    LET r == NewRef(h)
    IN  [heap |-> [h EXCEPT ![r] = h[src]], ref |-> r]

\* Memories a caller may hand to BaseAgentConfig: a turn opened externally and
\* waiting for its response, and a finished exchange.
SuppliedMemories ==
    { [turn |-> 1, history |-> << [role |-> "user", turn_id |-> 1, content |-> "hello"] >>],
      [turn |-> 1, history |-> << [role |-> "user", turn_id |-> 1, content |-> "hello"],
                                  [role |-> "assistant", turn_id |-> 1, content |-> "r1"] >>] }

----------------------------------------------------------------------------
(* SystemPromptGenerator (design section 4.2) *)

\* Names in the fixed order generate_prompt visits them.
NameOrder == << "date", "docs" >>

RECURSIVE Fragments(_, _)
Fragments(cp, i) ==
    IF i > Len(NameOrder) THEN << >>
    ELSE (IF NameOrder[i] \in DOMAIN cp THEN << cp[NameOrder[i]] >> ELSE << >>)
         \o Fragments(cp, i + 1)

\* generate_prompt(): the static template, then every registered provider's fragment.
generate_prompt(cp) == << "system_prompt" >> \o Fragments(cp, 1)

\* context_providers is a dict: a function whose domain is its keys.
NoProviders == [n \in {} |-> None]

\* Registries an agent is constructed with.
InitialRegistries == { NoProviders, [n \in {"date"} |-> "p1"] }

----------------------------------------------------------------------------
(* BaseAgent *)

\* The Memory value self.memory points at.
MemVal == heap[memory]

\* Faulty variant: the user message is appended without opening a turn.
RunRecordInput_NoTurn(m, user_input) ==
    IF user_input # None
    THEN add_message(m, "user", user_input)
    ELSE m

\* Faulty variant: the turn is opened after the user message is appended.
RunRecordInput_TurnAfter(m, user_input) ==
    IF user_input # None
    THEN initialize_turn(add_message(m, "user", user_input))
    ELSE m

\* run, lines 119-122: a supplied input opens a turn and is appended as "user".
RunRecordInput(m, user_input) ==
    IF user_input # None
    THEN add_message(initialize_turn(m), "user", user_input)
    ELSE m

\* Faulty variant: the assignment of line 121 sits outside the if.
RunCurrentInput_Always(cur, user_input) == user_input

\* run, line 121: the input is remembered as current.
RunCurrentInput(cur, user_input) ==
    IF user_input # None THEN user_input ELSE cur

\* Faulty variant: the system message is put after the history.
get_response_messages_SystemLast(m, cp) ==
    get_history(m) \o << [role |-> "system", content |-> generate_prompt(cp)] >>

\* get_response, lines 100-105: the system message, then the history.
get_response_messages(m, cp) ==
    << [role |-> "system", content |-> generate_prompt(cp)] >> \o get_history(m)

\* get_response, line 106: the requests one call submits to the client.
get_response_requests(m, cp) == << get_response_messages(m, cp) >>

\* client.chat.completions.create with response_model: a conforming payload is
\* returned as an instance of the output schema, anything else is raised.
create(payload) ==
    IF payload \in Responses
    THEN [kind |-> "return", value |-> payload]
    ELSE [kind |-> "raise", value |-> "ValidationError"]

\* Faulty variant: whatever the call produced is appended, an error included.
RunRecordResponse_Always(m, outcome) ==
    add_message(m, "assistant", outcome.value)

\* Faulty variant: a failed call takes its user message back out of Memory.
RunRecordResponse_Rollback(m, outcome) ==
    IF outcome.kind = "return"
    THEN add_message(m, "assistant", outcome.value)
    ELSE IF m.history # << >> /\ m.history[Len(m.history)].role = "user"
         THEN [m EXCEPT !.history = SubSeq(@, 1, Len(@) - 1)]
         ELSE m

\* run, lines 124-125: the response is appended as "assistant"; an exception
\* raised by get_response leaves line 125 unexecuted.
RunRecordResponse(m, outcome) ==
    IF outcome.kind = "return"
    THEN add_message(m, "assistant", outcome.value)
    ELSE m

\* __init__, lines 71-78.
BaseAgent_init(config_memory, providers) ==
    LET m0   == IF config_memory # NoMem THEN config_memory ELSE AgentMemory
        h0   == [r \in Refs |-> IF r = 1 THEN m0 ELSE NoMem]
        snap == copy(h0, 1)
    IN  /\ heap = snap.heap
        /\ memory = 1
        /\ initial_memory = snap.ref
        /\ current_user_input = None
        /\ context_providers = providers
        /\ pc = "Idle"
        /\ request = << >>
        /\ result = [kind |-> "none", value |-> None]
        /\ lastOp = [op |-> "__init__", outcome |-> "returned"]
        /\ constructed = m0
        /\ callMem = m0
        /\ callInput = None
        /\ callCurrent = None
        /\ submitted = << >>
        /\ prevFail = NoFail
        /\ regLog = << >>
        /\ regBefore = providers

\* The example's start-up is not part of an agent's life.
ConfigIdle ==
    /\ env = << >>
    /\ chat_config = << >>
    /\ client = << >>
    /\ startup = "done"

Init ==
    /\ \E config_memory \in {NoMem} \cup SuppliedMemories, providers \in InitialRegistries :
          BaseAgent_init(config_memory, providers)
    /\ ConfigIdle

\* Faulty variant: self.memory = self.initial_memory, without the copy.
reset_memory_alias ==
    /\ pc = "Idle"
    /\ heap' = IF memory # initial_memory THEN [heap EXCEPT ![memory] = NoMem] ELSE heap
    /\ memory' = initial_memory
    /\ callMem' = MemVal
    /\ callCurrent' = current_user_input
    /\ prevFail' = NoFail
    /\ lastOp' = [op |-> "reset_memory", outcome |-> "returned"]
    /\ result' = [kind |-> "return", value |-> None]
    /\ UNCHANGED << initial_memory, current_user_input, pc, request, constructed,
                    callInput, submitted, regVars, configVars >>

\* reset_memory, line 84.
reset_memory ==
    /\ pc = "Idle"
    /\ LET snap == copy(heap, initial_memory)
       IN  /\ heap' = [snap.heap EXCEPT ![memory] = NoMem]
           /\ memory' = snap.ref
    /\ callMem' = MemVal
    /\ callCurrent' = current_user_input
    /\ prevFail' = NoFail
    /\ lastOp' = [op |-> "reset_memory", outcome |-> "returned"]
    /\ result' = [kind |-> "return", value |-> None]
    /\ UNCHANGED << initial_memory, current_user_input, pc, request, constructed,
                    callInput, submitted, regVars, configVars >>

\* run, lines 119-124 up to the point where the client has the request.
RunCall(user_input) ==
    /\ pc = "Idle"
    /\ Len(MemVal.history) + (IF user_input # None THEN 2 ELSE 1) <= MaxHistory
    /\ LET m1 == RunRecordInput(MemVal, user_input)
           rs == get_response_requests(m1, context_providers)
       IN  /\ heap' = [heap EXCEPT ![memory] = m1]
           /\ request' = request \o rs
           /\ submitted' = rs
    /\ current_user_input' = RunCurrentInput(current_user_input, user_input)
    /\ pc' = "AwaitingResponse"
    /\ callMem' = MemVal
    /\ callInput' = user_input
    /\ callCurrent' = current_user_input
    /\ prevFail' = IF /\ user_input = None
                      /\ lastOp.op = "run"
                      /\ lastOp.outcome = "raised"
                      /\ callInput # None
                   THEN [mem |-> callMem, input |-> callInput]
                   ELSE NoFail
    /\ lastOp' = [op |-> "run", outcome |-> "pending"]
    /\ UNCHANGED << memory, initial_memory, result, constructed, regVars, configVars >>

\* run, lines 124-127, once the client has an outcome for the request.
RunFinish(outcome) ==
    /\ pc = "AwaitingResponse"
    /\ request # << >>
    /\ heap' = [heap EXCEPT ![memory] = RunRecordResponse(MemVal, outcome)]
    /\ request' = Tail(request)
    /\ result' = outcome
    /\ pc' = "Idle"
    /\ lastOp' = [op |-> "run",
                  outcome |-> IF outcome.kind = "return" THEN "returned" ELSE "raised"]
    /\ UNCHANGED << memory, initial_memory, current_user_input, constructed, callMem,
                    callInput, callCurrent, submitted, prevFail, regVars, configVars >>

\* The completion endpoint answers with a payload.
CompletionReturns == \E payload \in Payloads : RunFinish(create(payload))

\* The completion endpoint fails.
CompletionFails == \E e \in ProviderErrors : RunFinish([kind |-> "raise", value |-> e])

Run == \E user_input \in Inputs \cup {None} : RunCall(user_input)

Next ==
    \/ Run
    \/ CompletionReturns
    \/ CompletionFails
    \/ reset_memory

Spec == Init /\ [][Next]_vars

----------------------------------------------------------------------------
(* The context-provider registry *)

\* Faulty variant: an existing name keeps its provider (dict.setdefault).
register_context_provider_setdefault(provider_name, provider) ==
    /\ pc = "Idle"
    /\ Len(regLog) < MaxLog
    /\ context_providers' =
          [n \in DOMAIN context_providers \cup {provider_name} |->
              IF n \in DOMAIN context_providers THEN context_providers[n] ELSE provider]
    /\ regLog' = Append(regLog, [op |-> "register", name |-> provider_name,
                                 provider |-> provider])
    /\ regBefore' = context_providers
    /\ result' = [kind |-> "return", value |-> None]
    /\ lastOp' = [op |-> "register_context_provider", outcome |-> "returned",
                  name |-> provider_name, provider |-> provider]
    /\ UNCHANGED << agentVars, configVars >>

\* register_context_provider, line 154.
register_context_provider(provider_name, provider) ==
    /\ pc = "Idle"
    /\ Len(regLog) < MaxLog
    /\ context_providers' =
          [n \in DOMAIN context_providers \cup {provider_name} |->
              IF n = provider_name THEN provider ELSE context_providers[n]]
    /\ regLog' = Append(regLog, [op |-> "register", name |-> provider_name,
                                 provider |-> provider])
    /\ regBefore' = context_providers
    /\ result' = [kind |-> "return", value |-> None]
    /\ lastOp' = [op |-> "register_context_provider", outcome |-> "returned",
                  name |-> provider_name, provider |-> provider]
    /\ UNCHANGED << agentVars, configVars >>

\* Faulty variant: an unknown name is passed over in silence (dict.pop(name, None)).
unregister_context_provider_pop(provider_name) ==
    /\ pc = "Idle"
    /\ Len(regLog) < MaxLog
    /\ context_providers' =
          [n \in DOMAIN context_providers \ {provider_name} |-> context_providers[n]]
    /\ result' = [kind |-> "return", value |-> None]
    /\ lastOp' = [op |-> "unregister_context_provider", outcome |-> "returned",
                  name |-> provider_name, provider |-> None]
    /\ regLog' = Append(regLog, [op |-> "unregister", name |-> provider_name,
                                 provider |-> None])
    /\ regBefore' = context_providers
    /\ UNCHANGED << agentVars, configVars >>

\* unregister_context_provider, lines 163-166.
unregister_context_provider(provider_name) ==
    /\ pc = "Idle"
    /\ Len(regLog) < MaxLog
    /\ IF provider_name \in DOMAIN context_providers
       THEN /\ context_providers' =
                  [n \in DOMAIN context_providers \ {provider_name} |-> context_providers[n]]
            /\ result' = [kind |-> "return", value |-> None]
            /\ lastOp' = [op |-> "unregister_context_provider", outcome |-> "returned",
                          name |-> provider_name, provider |-> None]
       ELSE /\ context_providers' = context_providers
            /\ result' = [kind |-> "raise", value |-> "KeyError"]
            /\ lastOp' = [op |-> "unregister_context_provider", outcome |-> "raised",
                          name |-> provider_name, provider |-> None]
    /\ regLog' = Append(regLog, [op |-> "unregister", name |-> provider_name,
                                 provider |-> None])
    /\ regBefore' = context_providers
    /\ UNCHANGED << agentVars, configVars >>

\* Faulty variant: an unknown name yields None (dict.get).
get_context_provider_default(provider_name) ==
    /\ pc = "Idle"
    /\ result' = [kind |-> "return",
                  value |-> IF provider_name \in DOMAIN context_providers
                            THEN context_providers[provider_name] ELSE None]
    /\ lastOp' = [op |-> "get_context_provider", outcome |-> "returned",
                  name |-> provider_name, provider |-> None]
    /\ regBefore' = context_providers
    /\ UNCHANGED << context_providers, regLog, agentVars, configVars >>

\* get_context_provider, lines 142-144.
get_context_provider(provider_name) ==
    /\ pc = "Idle"
    /\ IF provider_name \notin DOMAIN context_providers
       THEN /\ result' = [kind |-> "raise", value |-> "KeyError"]
            /\ lastOp' = [op |-> "get_context_provider", outcome |-> "raised",
                          name |-> provider_name, provider |-> None]
       ELSE /\ result' = [kind |-> "return", value |-> context_providers[provider_name]]
            /\ lastOp' = [op |-> "get_context_provider", outcome |-> "returned",
                          name |-> provider_name, provider |-> None]
    /\ regBefore' = context_providers
    /\ UNCHANGED << context_providers, regLog, agentVars, configVars >>

\* An agent built with the default Memory and prompt generator.
InitRegistry ==
    /\ BaseAgent_init(NoMem, NoProviders)
    /\ ConfigIdle

NextRegistry ==
    \/ \E provider_name \in Names, provider \in Providers :
          register_context_provider(provider_name, provider)
    \/ \E provider_name \in Names : unregister_context_provider(provider_name)
    \/ \E provider_name \in Names : get_context_provider(provider_name)

SpecRegistry == InitRegistry /\ [][NextRegistry]_vars

----------------------------------------------------------------------------
(* The deep-research example's start-up: config.py, then agents/client.py *)

\* The environment variables the two modules read.
EnvNames ==
    { "OPENAI_API_KEY", "CLIENT_TYPE", "AZURE_DEPLOYMENT", "OPENAI_MODEL",
      "OPENAI_BASE_URL", "AZURE_OPENAI_ENDPOINT", "AZURE_API_KEY" }

\* The values a variable may hold; None is an unset variable.
EnvValues(name) ==
    CASE name = "OPENAI_API_KEY"        -> {None, "", "sk-key"}
      [] name = "CLIENT_TYPE"           -> {None, "azure", "openai"}
      [] name = "AZURE_DEPLOYMENT"      -> {None, "gpt-deployment"}
      [] name = "OPENAI_MODEL"          -> {None, "gpt-4o-mini"}
      [] name = "OPENAI_BASE_URL"       -> {None, "http://localhost:8000/v1"}
      [] name = "AZURE_OPENAI_ENDPOINT" -> {None, "https://example.openai.azure.com"}
      [] name = "AZURE_API_KEY"         -> {None, "azure-key"}

Environments == { e \in [EnvNames -> UNION { EnvValues(n) : n \in EnvNames }] :
                    \A n \in EnvNames : e[n] \in EnvValues(n) }

\* Python truthiness of an optional string.
Truthy(v) == v # None /\ v # ""

\* os.getenv(name, default).
getenv(e, name, default) == IF e[name] # None THEN e[name] ELSE default

\* get_api_key, lines 10-13.
get_api_key(e) ==
    LET api_key == getenv(e, "OPENAI_API_KEY", None)
    IN  IF ~Truthy(api_key)
        THEN [kind |-> "raise", value |-> "ValueError", setting |-> "OPENAI_API_KEY"]
        ELSE [kind |-> "return", value |-> api_key, setting |-> None]

\* ChatConfig.model, line 21: (CLIENT_TYPE == "azure" and AZURE_DEPLOYMENT) or OPENAI_MODEL.
ChatConfig_model(e) ==
    IF getenv(e, "CLIENT_TYPE", None) = "azure" /\ Truthy(getenv(e, "AZURE_DEPLOYMENT", None))
    THEN getenv(e, "AZURE_DEPLOYMENT", None)
    ELSE getenv(e, "OPENAI_MODEL", None)

\* ChatConfig, lines 20-24: the class attributes, evaluated when config.py is imported.
ChatConfig(e) ==
    [ api_key   |-> get_api_key(e).value,
      model     |-> ChatConfig_model(e),
      base_url  |-> getenv(e, "OPENAI_BASE_URL", ""),
      use_azure |-> getenv(e, "CLIENT_TYPE", None) = "azure" ]

NoClient == [kind |-> "none", api_key |-> None, endpoint |-> None, deployment |-> None]

\* openai.AzureOpenAI(azure_endpoint, azure_deployment, api_key): without an
\* api_key the library looks for a credential of its own and raises if it finds
\* none; without an endpoint it raises; the deployment is optional.
AzureOpenAI(azure_endpoint, azure_deployment, api_key) ==
    LET built == [kind |-> "return", setting |-> None,
                  value |-> [kind |-> "AzureOpenAI", api_key |-> api_key,
                             endpoint |-> azure_endpoint, deployment |-> azure_deployment]]
        noKey == [kind |-> "raise", setting |-> "AZURE_OPENAI_API_KEY", value |-> "OpenAIError"]
        noEnd == [kind |-> "raise", setting |-> "AZURE_OPENAI_ENDPOINT", value |-> "ValueError"]
        rest  == IF azure_endpoint = None THEN noEnd ELSE built
    IN  IF api_key = None THEN {noKey, rest} ELSE {rest}

\* openai.OpenAI(api_key, base_url).
OpenAI(api_key, base_url) ==
    { [kind |-> "return", setting |-> None,
       value |-> [kind |-> "OpenAI", api_key |-> api_key, endpoint |-> base_url,
                  deployment |-> None]] }

\* agents/client.py, lines 7-17: the client the module level builds.
ClientOutcomes(e, cc) ==
    IF cc.use_azure
    THEN AzureOpenAI(getenv(e, "AZURE_OPENAI_ENDPOINT", None),
                     getenv(e, "AZURE_DEPLOYMENT", None),
                     getenv(e, "AZURE_API_KEY", None))
    ELSE IF Truthy(cc.base_url)
         THEN OpenAI(cc.api_key, cc.base_url)
         ELSE OpenAI(cc.api_key, None)

\* No agent is constructed yet.
NoAgent ==
    /\ heap = [r \in Refs |-> NoMem]
    /\ memory = 1
    /\ initial_memory = 1
    /\ current_user_input = None
    /\ context_providers = NoProviders
    /\ pc = "Idle"
    /\ request = << >>
    /\ constructed = NoMem
    /\ callMem = NoMem
    /\ callInput = None
    /\ callCurrent = None
    /\ submitted = << >>
    /\ prevFail = NoFail
    /\ regLog = << >>
    /\ regBefore = NoProviders

InitConfig ==
    /\ env \in Environments
    /\ chat_config = << >>
    /\ client = NoClient
    /\ startup = "start"
    /\ result = [kind |-> "none", value |-> None, setting |-> None]
    /\ lastOp = [op |-> "start", outcome |-> "returned"]
    /\ NoAgent

\* import deep_research.config: lines 6-28 run once, get_api_key within line 20.
ImportConfig ==
    /\ startup = "start"
    /\ LET k == get_api_key(env)
       IN  IF k.kind = "raise"
           THEN /\ startup' = "failed"
                /\ result' = k
                /\ lastOp' = [op |-> "import config", outcome |-> "raised"]
                /\ UNCHANGED chat_config
           ELSE /\ startup' = "config_loaded"
                /\ chat_config' = ChatConfig(env)
                /\ result' = [kind |-> "return", value |-> None, setting |-> None]
                /\ lastOp' = [op |-> "import config", outcome |-> "returned"]
    /\ UNCHANGED << env, client, agentVars, regVars >>

\* import deep_research.agents.client: lines 1-17 run once.
ImportClient ==
    /\ startup = "config_loaded"
    /\ \E o \in ClientOutcomes(env, chat_config) :
          IF o.kind = "raise"
          THEN /\ startup' = "failed"
               /\ result' = o
               /\ lastOp' = [op |-> "import client", outcome |-> "raised"]
               /\ UNCHANGED client
          ELSE /\ startup' = "ready"
               /\ client' = o.value
               /\ result' = [kind |-> "return", value |-> None, setting |-> None]
               /\ lastOp' = [op |-> "import client", outcome |-> "returned"]
    /\ UNCHANGED << env, chat_config, agentVars, regVars >>

NextConfig ==
    \/ ImportConfig
    \/ ImportClient

SpecConfig == InitConfig /\ [][NextConfig]_vars

----------------------------------------------------------------------------
(* Properties of run and reset_memory *)

\* The user message run(user_input) records in a Memory whose value was m.
UserMessage(m, user_input) ==
    [role |-> "user", turn_id |-> m.turn + 1, content |-> user_input]

\* The history right after the input of the last run call was recorded.
HistoryWithInput ==
    IF callInput # None
    THEN Append(callMem.history, UserMessage(callMem, callInput))
    ELSE callMem.history

RunRaised == lastOp.op = "run" /\ lastOp.outcome = "raised"
RunReturned == lastOp.op = "run" /\ lastOp.outcome = "returned"

\* C1: during every run call the turn counter never decreases; it is one more
\* than when the call began if the call supplied an input, and the same if not.
C1_TurnCounter ==
    lastOp.op = "run" =>
        /\ MemVal.turn >= callMem.turn
        /\ MemVal.turn = callMem.turn + (IF callInput # None THEN 1 ELSE 0)

\* A second run(input) has failed and a turn was opened for it all the same.
C1_Witness ==
    /\ RunRaised
    /\ callInput # None
    /\ callMem.turn >= 1
    /\ MemVal.turn = callMem.turn + 1

\* C2: after reset_memory the Memory has the turn counter and the message
\* sequence it had right after construction.
C2_ResetRestores ==
    lastOp.op = "reset_memory" => MemVal = constructed

\* A reset of an agent built with a supplied Memory, after a run(input) that failed.
C2_Witness ==
    /\ lastOp.op = "reset_memory"
    /\ Len(constructed.history) = 2
    /\ Len(callMem.history) > 2
    /\ callMem.history[Len(callMem.history)].role = "user"
    /\ MemVal # callMem

\* C3: a run(input) whose completion fails or is malformed raises that error,
\* and all it added to Memory is the user message of its turn.
C3_FailedRun ==
    (RunRaised /\ callInput # None) =>
        /\ result.kind = "raise"
        /\ result.value \in ProviderErrors \cup {"ValidationError"}
        /\ MemVal.turn = callMem.turn + 1
        /\ MemVal.history = Append(callMem.history, UserMessage(callMem, callInput))

\* A run(input) failed on a payload without the required field.
C3_Witness ==
    /\ RunRaised
    /\ callInput # None
    /\ result.value = "ValidationError"
    /\ Len(MemVal.history) = Len(callMem.history) + 1

\* C4: a successful run() without input opens no turn, adds no user message,
\* keeps the current input, and appends exactly one assistant message.
C4_Continue ==
    (RunReturned /\ callInput = None) =>
        /\ MemVal.turn = callMem.turn
        /\ current_user_input = callCurrent
        /\ MemVal.history =
              Append(callMem.history,
                     [role |-> "assistant", turn_id |-> callMem.turn, content |-> result.value])

\* A history of 2 messages became one of 3 by run() without input.
C4_Witness ==
    /\ RunReturned
    /\ callInput = None
    /\ callCurrent # None
    /\ Len(callMem.history) = 2
    /\ Len(MemVal.history) = 3

\* The role/content pairs a history is submitted as.
Submitted(h) ==
    [i \in 1..Len(h) |-> [role |-> h[i].role, content |-> << "chat_message", h[i].content >>]]

TurnIds(h) == { h[i].turn_id : i \in 1..Len(h) }
IsTurn(t, x) == x.turn_id = t
TurnRoles(h, t) ==
    LET ms == SelectSeq(h, LAMBDA x : IsTurn(t, x))
    IN  [i \in 1..Len(ms) |-> ms[i].role]
NonDecreasing(h) ==
    \A i, j \in 1..Len(h) : i <= j => h[i].turn_id <= h[j].turn_id

\* C9 as stated: between run calls, from an empty Memory, every turn is zero or
\* one user message followed by one assistant message.
C9_TurnShape ==
    (pc = "Idle" /\ constructed = AgentMemory) =>
        /\ NonDecreasing(MemVal.history)
        /\ \A t \in TurnIds(MemVal.history) :
              TurnRoles(MemVal.history, t) \in { << "user", "assistant" >>, << "assistant" >> }

\* C9 as amended: between run calls, from an empty Memory, turn indices are
\* non-decreasing and every turn holds at most one user message, which is the
\* first message of its turn; the others are assistant messages (none after a
\* failed run, several after run calls without input).
C9_TurnShapeAmended ==
    (pc = "Idle" /\ constructed = AgentMemory) =>
        /\ NonDecreasing(MemVal.history)
        /\ \A t \in TurnIds(MemVal.history) :
              \A i \in 2..Len(TurnRoles(MemVal.history, t)) :
                  TurnRoles(MemVal.history, t)[i] = "assistant"

\* A turn of one user message and two assistant messages, after an earlier turn.
C9_Witness ==
    /\ pc = "Idle"
    /\ constructed = AgentMemory
    /\ TurnRoles(MemVal.history, 2) = << "user", "assistant", "assistant" >>
    /\ TurnRoles(MemVal.history, 1) = << "user" >>

\* C10: a run(input) that failed at the completion call, followed directly by a
\* successful run() returning r, leaves the Memory a single successful
\* run(input) returning r leaves from the same starting state.
C10_ContinueCompletes ==
    (RunReturned /\ prevFail # NoFail) =>
        /\ callInput = None
        /\ MemVal.turn = prevFail.mem.turn + 1
        /\ MemVal.history =
              prevFail.mem.history \o
              << [role |-> "user", turn_id |-> prevFail.mem.turn + 1, content |-> prevFail.input],
                 [role |-> "assistant", turn_id |-> prevFail.mem.turn + 1,
                  content |-> result.value] >>

\* A failed run(input) on a non-empty Memory was completed by run().
C10_Witness ==
    /\ RunReturned
    /\ prevFail # NoFail
    /\ prevFail.mem.history # << >>
    /\ Len(MemVal.history) = Len(prevFail.mem.history) + 2

----------------------------------------------------------------------------
(* Properties of the context-provider registry *)

\* The provider the calls of a log leave under a name: that of the last call on
\* the name if it is a register call, None otherwise.
RegisteredIn(log, name) ==
    LET idx == { i \in 1..Len(log) : log[i].name = name }
    IN  IF idx = {} THEN None
        ELSE LET k == CHOOSE i \in idx : \A j \in idx : j <= i
             IN  IF log[k].op = "register" THEN log[k].provider ELSE None

\* The log as it was when the last registry call began.
LogBefore ==
    IF lastOp.op \in {"register_context_provider", "unregister_context_provider"}
    THEN SubSeq(regLog, 1, Len(regLog) - 1)
    ELSE regLog

\* The provider a dict holds under a name, None for a missing key.
Lookup(cp, name) == IF name \in DOMAIN cp THEN cp[name] ELSE None

\* C5: get_context_provider(name) returns the provider most recently registered
\* under the name; a register call puts its provider under its name, replacing
\* any earlier one, and leaves every other name as it was.
C5_MostRecentProvider ==
    /\ (lastOp.op = "get_context_provider" /\ RegisteredIn(regLog, lastOp.name) # None) =>
          result = [kind |-> "return", value |-> RegisteredIn(regLog, lastOp.name)]
    /\ lastOp.op = "register_context_provider" =>
          /\ Lookup(context_providers, lastOp.name) = lastOp.provider
          /\ \A n \in Names \ {lastOp.name} :
                Lookup(context_providers, n) = Lookup(regBefore, n)

\* A name was registered twice with different providers and then looked up,
\* while another name stayed registered.
C5_Witness ==
    /\ lastOp.op = "get_context_provider"
    /\ Len(regLog) = 3
    /\ regLog[2].op = "register"
    /\ regLog[3].op = "register"
    /\ regLog[2].name = lastOp.name
    /\ regLog[3].name = lastOp.name
    /\ regLog[2].provider # regLog[3].provider
    /\ regLog[1].name # lastOp.name
    /\ result.value = regLog[3].provider
    /\ DOMAIN context_providers = Names

\* C6: unregister_context_provider and get_context_provider with a name that is
\* not registered raise KeyError and leave the registry unchanged.
C6_UnknownNameRaises ==
    ( /\ lastOp.op \in {"unregister_context_provider", "get_context_provider"}
      /\ RegisteredIn(LogBefore, lastOp.name) = None ) =>
        /\ result = [kind |-> "raise", value |-> "KeyError"]
        /\ lastOp.outcome = "raised"
        /\ context_providers = regBefore

\* A name that was registered and unregistered is unregistered once more.
C6_Witness ==
    /\ lastOp.op = "unregister_context_provider"
    /\ Len(regLog) = 4
    /\ regLog[1].op = "register"
    /\ regLog[2] = [op |-> "register", name |-> lastOp.name, provider |-> "p1"]
    /\ regLog[3] = [op |-> "unregister", name |-> lastOp.name, provider |-> None]
    /\ result.kind = "raise"
    /\ context_providers # NoProviders

----------------------------------------------------------------------------
(* Properties of the start-up *)

\* The settings the selected provider requires.
Required(e) ==
    IF e["CLIENT_TYPE"] = "azure"
    THEN {"AZURE_OPENAI_ENDPOINT", "AZURE_DEPLOYMENT", "AZURE_API_KEY"}
    ELSE {"OPENAI_API_KEY"}

Missing(e) == { n \in Required(e) : e[n] = None }

\* The environment variable an error message points at: the library's message
\* for a missing api_key names its own variable, read here as AZURE_API_KEY.
Named(setting) == IF setting = "AZURE_OPENAI_API_KEY" THEN "AZURE_API_KEY" ELSE setting

\* C7: with a credential the selected provider requires absent, start-up ends
\* in a failure whose message names a setting that is missing, and no client is
\* constructed.
C7_FailFast ==
    (startup \in {"failed", "ready"} /\ Missing(env) # {}) =>
        /\ startup = "failed"
        /\ result.kind = "raise"
        /\ ~Truthy(env[Named(result.setting)])
        /\ client = NoClient

====
